---- MODULE Spec2Model ----
(***************************************************************************)
(* Model of calico/openstack/t_etcd.py: the etcd transport of the          *)
(* Calico/OpenStack plugin (class CalicoTransportEtcd and the module-level *)
(* function _neutron_rule_to_etcd_rule).                                   *)
(*                                                                         *)
(* Green threads are cooperative (eventlet): a thread runs without         *)
(* interruption from one suspension point to the next.  The suspension     *)
(* points are eventlet.sleep and every call of the etcd client.  A         *)
(* thread's pc names the call it is suspended in; one action of the model  *)
(* is the completion of that call followed by the code up to the next      *)
(* suspension point.                                                       *)
(***************************************************************************)
EXTENDS Integers, Sequences, FiniteSets, TLC

VARIABLES
    store,              \* etcd: key -> value, the domain is the set of keys present
    sgs,                \* self.sgs: security group id -> security group
    needed_profiles,    \* self.needed_profiles: set of profile ids
    sgs_semaphore,      \* self._sgs_semaphore: its holder, or Free
    profile_semaphore,  \* self.profile_semaphore: its holder, or Free
    tasks,              \* the green threads running the event handlers
    resync,             \* the green thread running periodic_resync_thread
    rule,               \* argument of _neutron_rule_to_etcd_rule
    etcd_rule,          \* its result
    port,               \* argument of port_profile_id
    profile_id,         \* a profile id (result of port_profile_id)
    tags,               \* result of profile_tags
    events              \* event handlers called so far

vars == <<store, sgs, needed_profiles, sgs_semaphore, profile_semaphore,
          tasks, resync, rule, etcd_rule, port, profile_id, tags, events>>

\* the variables of the pure functions
pure == <<rule, etcd_rule, port, profile_id, tags>>

----------------------------------------------------------------------------
(* Python values.  Python is dynamically typed: a value carries its type.  *)

None == [t |-> "None"]
PyInt(i) == [t |-> "int", v |-> i]
PyStr(s) == [t |-> "str", v |-> s]
PyList(s) == [t |-> "list", v |-> s]

\* Python's a == b on None, ints and strings
PyEq(a, b) ==
    IF a.t # b.t THEN FALSE
    ELSE IF a.t = "None" THEN TRUE
    ELSE a.v = b.v

\* Python's truth value of None, an int or a string
Truthy(a) ==
    CASE a.t = "None" -> FALSE
      [] a.t = "int" -> a.v # 0
      [] a.t = "str" -> a.v # ""

\* '%s' % a
PyFormat(a) ==
    CASE a.t = "None" -> "None"
      [] a.t = "int" -> ToString(a.v)
      [] a.t = "str" -> a.v

\* d[k] = v on a dict d
DictSet(d, k, v) == [x \in (DOMAIN d) \cup {k} |-> IF x = k THEN v ELSE d[x]]

\* del d[k] on a dict d
DictDel(d, k) == [x \in (DOMAIN d) \ {k} |-> d[x]]

----------------------------------------------------------------------------
(* _neutron_rule_to_etcd_rule                                              *)

\* {'IPv4': 4, 'IPv6': 6}[ethertype]
IpVersion(ethertype) == IF ethertype = "IPv4" THEN PyInt(4) ELSE PyInt(6)

\* the protocol field of the result: absent for None and -1, the
\* family's name for 'icmp', the rule's own value otherwise
RuleProtocol(r, d) ==
    IF PyEq(r.protocol, None) \/ PyEq(r.protocol, PyInt(-1))
    THEN d
    ELSE IF PyEq(r.protocol, PyStr("icmp"))
         THEN DictSet(d, "protocol",
                      IF r.ethertype = "IPv4" THEN PyStr("icmp") ELSE PyStr("icmpv6"))
         ELSE DictSet(d, "protocol", r.protocol)

\* the IPv4 any-address net stands in for both families
RuleNetV4(r) ==
    IF ~ Truthy(IF Truthy(r.remote_ip_prefix) THEN r.remote_ip_prefix
                                              ELSE r.remote_group_id)
    THEN PyStr("0.0.0.0/0")
    ELSE r.remote_ip_prefix

\* net: the rule's remote_ip_prefix, or the family's any-address net when
\* neither the prefix nor the remote group is given
RuleNet(r) ==
    IF ~ Truthy(IF Truthy(r.remote_ip_prefix) THEN r.remote_ip_prefix
                                              ELSE r.remote_group_id)
    THEN IF r.ethertype = "IPv4" THEN PyStr("0.0.0.0/0") ELSE PyStr("::/0")
    ELSE r.remote_ip_prefix

\* the -1 sentinel is copied like any other type or code
RuleIcmpKeepSentinel(r, d) ==
    LET icmp_type == r.port_range_min
        icmp_code == r.port_range_max
        d1 == IF ~ PyEq(icmp_type, None)
              THEN DictSet(d, "icmp_type", icmp_type) ELSE d
    IN  IF ~ PyEq(icmp_code, None)
        THEN DictSet(d1, "icmp_code", icmp_code) ELSE d1

\* the icmp_type and icmp_code fields of an ICMP rule
RuleIcmp(r, d) ==
    LET icmp_type == r.port_range_min
        icmp_code == r.port_range_max
        d1 == IF ~ PyEq(icmp_type, None) /\ ~ PyEq(icmp_type, PyInt(-1))
              THEN DictSet(d, "icmp_type", icmp_type) ELSE d
    IN  IF ~ PyEq(icmp_code, None) /\ ~ PyEq(icmp_code, PyInt(-1))
        THEN DictSet(d1, "icmp_code", icmp_code) ELSE d1

\* equal bounds are written as a range too
RulePortSpecRange(r) ==
    IF PyEq(r.port_range_min, PyInt(-1))
    THEN PyList(<<PyStr("1:65535")>>)
    ELSE IF PyEq(r.port_range_min, r.port_range_max) /\ PyEq(r.port_range_min, None)
         THEN None
         ELSE PyList(<<PyStr(PyFormat(r.port_range_min) \o ":"
                                     \o PyFormat(r.port_range_max))>>)

\* port_spec of a rule that is not ICMP: None, or a one-element list
RulePortSpec(r) ==
    IF PyEq(r.port_range_min, PyInt(-1))
    THEN PyList(<<PyStr("1:65535")>>)
    ELSE IF PyEq(r.port_range_min, r.port_range_max)
         THEN IF ~ PyEq(r.port_range_min, None)
              THEN PyList(<<r.port_range_min>>)
              ELSE None
         ELSE PyList(<<PyStr(PyFormat(r.port_range_min) \o ":"
                                     \o PyFormat(r.port_range_max))>>)

\* the remote group becomes the tag of a side and net its net
RuleSelector(r, d, net, tagKey, netKey) ==
    LET d1 == IF ~ PyEq(r.remote_group_id, None)
              THEN DictSet(d, tagKey, r.remote_group_id) ELSE d
    IN  IF ~ PyEq(net, None) THEN DictSet(d1, netKey, net) ELSE d1

\* the ports go to the side of the selector
RuleAssembleBySide(r, d, net, port_spec) ==
    IF r.direction = "ingress"
    THEN LET side == RuleSelector(r, d, net, "src_tag", "src_net")
         IN  IF ~ PyEq(port_spec, None) THEN DictSet(side, "src_ports", port_spec)
                                        ELSE side
    ELSE LET side == RuleSelector(r, d, net, "dst_tag", "dst_net")
         IN  IF ~ PyEq(port_spec, None) THEN DictSet(side, "dst_ports", port_spec)
                                        ELSE side

\* "Put it all together": selector and ports, by direction
RuleAssemble(r, d, net, port_spec) ==
    LET side == IF r.direction = "ingress"
                THEN RuleSelector(r, d, net, "src_tag", "src_net")
                ELSE RuleSelector(r, d, net, "dst_tag", "dst_net")
    IN  IF ~ PyEq(port_spec, None) THEN DictSet(side, "dst_ports", port_spec) ELSE side

NeutronRuleToEtcdRule(r) ==
    LET d0 == "ip_version" :> IpVersion(r.ethertype)
        d1 == RuleProtocol(r, d0)
        net == RuleNet(r)
        isIcmp == PyEq(r.protocol, PyStr("icmp"))
        d2 == IF isIcmp THEN RuleIcmp(r, d1) ELSE d1
        port_spec == IF isIcmp THEN None ELSE RulePortSpec(r)
    IN  RuleAssemble(r, d2, net, port_spec)

----------------------------------------------------------------------------
(* Profile ids.  A string is a sequence of characters, so that join and    *)
(* split are computed as Python computes them.                             *)

Separator == "_"

\* sep.join(list) for a list of strings
RECURSIVE Join(_)
Join(list) ==
    IF Len(list) = 0 THEN <<>>
    ELSE IF Len(list) = 1 THEN list[1]
    ELSE list[1] \o <<Separator>> \o Join(Tail(list))

\* s.split(sep): scanning from character i, cur is the piece being read
\* and acc the pieces already closed
RECURSIVE SplitFrom(_, _, _, _)
SplitFrom(s, i, cur, acc) ==
    IF i > Len(s) THEN Append(acc, cur)
    ELSE IF s[i] = Separator THEN SplitFrom(s, i + 1, <<>>, Append(acc, cur))
    ELSE SplitFrom(s, i + 1, Append(cur, s[i]), acc)

\* port_profile_id: '_'.join(port['security_groups'])
PortProfileId(p) == Join(p.security_groups)

\* profile_tags: profile_id.split('_')
ProfileTags(pid) == SplitFrom(pid, 1, <<>>, <<>>)

Range(s) == {s[i] : i \in DOMAIN s}

----------------------------------------------------------------------------
(* Inputs of the pure functions.                                           *)

MaxGroups == 2      \* security groups carried by a port
MaxIdLen == 2       \* characters of a security group id, of a profile id beyond that

\* the sentinel -1 and two port numbers
PortValues == {None, PyInt(-1), PyInt(3), PyInt(4)}

RuleInputs ==
    [direction : {"ingress", "egress"},
     ethertype : {"IPv4", "IPv6"},
     protocol : {None, PyInt(-1), PyStr("icmp"), PyStr("tcp")},
     remote_group_id : {None, PyStr("sg-web")},
     remote_ip_prefix : {None, PyStr("10.0.0.0/8")},
     port_range_min : PortValues,
     port_range_max : PortValues]

Strings(alphabet, n) == UNION {[1..k -> alphabet] : k \in 0..n}

\* security group ids are Neutron UUIDs: never empty, never holding '_'
GroupIdInputs == Strings({"a", "b"}, MaxIdLen) \ {<<>>}

\* the security_groups lists of a port, the empty list included
GroupListInputs == UNION {[1..k -> GroupIdInputs] : k \in 0..MaxGroups}

ProfileIdInputs == Strings({"a", Separator}, MaxIdLen + 1)

NoDict == [none |-> TRUE]

----------------------------------------------------------------------------
(* etcd keys and the etcd client.                                          *)

KeyForEndpoint(host, orchestrator, workload_id, endpoint_id) ==
    [dir |-> "host", hostname |-> host, orchestrator |-> orchestrator,
     workload |-> workload_id, endpoint |-> endpoint_id]

KeyForProfileRules(pid) == [dir |-> "profile", id |-> pid, leaf |-> "rules"]

KeyForProfileTags(pid) == [dir |-> "profile", id |-> pid, leaf |-> "tags"]

KeyForConfig(name) == [dir |-> "config", name |-> name]

READY_KEY == [dir |-> "Ready"]

\* port_etcd_key
PortEtcdKey(p) == KeyForEndpoint(p.binding_host_id, "openstack", p.device_id, p.id)

\* port_etcd_data: the endpoint document of a port
PortEtcdData(p) ==
    LET v6 == SelectSeq(p.fixed_ips, LAMBDA ip : ip.colon)
        v4 == SelectSeq(p.fixed_ips, LAMBDA ip : ~ ip.colon)
        gw6 == SelectSeq(v6, LAMBDA ip : ~ PyEq(ip.gateway, None))
        gw4 == SelectSeq(v4, LAMBDA ip : ~ PyEq(ip.gateway, None))
        d0 == [k \in {"state", "name", "mac", "profile_id", "ipv4_nets", "ipv6_nets"} |->
                 CASE k = "state" ->
                          PyStr(IF p.admin_state_up THEN "active" ELSE "inactive")
                   [] k = "name" -> PyStr(p.interface_name)
                   [] k = "mac" -> PyStr(p.mac_address)
                   [] k = "profile_id" -> PyStr(PortProfileId(p))
                   [] k = "ipv4_nets" ->
                          PyList([i \in DOMAIN v4 |-> PyStr(v4[i].ip_address \o "/32")])
                   [] k = "ipv6_nets" ->
                          PyList([i \in DOMAIN v6 |-> PyStr(v6[i].ip_address \o "/128")])]
        d1 == IF Len(gw6) > 0 THEN DictSet(d0, "ipv6_gateway", gw6[Len(gw6)].gateway) ELSE d0
    IN  IF Len(gw4) > 0 THEN DictSet(d1, "ipv4_gateway", gw4[Len(gw4)].gateway) ELSE d1

\* one call of the etcd client, as the handler's log records it
StoreOp(kind, key, val) == [op |-> kind, key |-> key, val |-> val]

NoValue == [none |-> TRUE]

----------------------------------------------------------------------------
(* profile_rules, from one suspension point to the next.                   *)

Retries == 20

Acquire(sem, self) == sem \cup {self}
Release(sem, self) == sem \ {self}

\* the semaphores thread self holds when sgs_semaphore is s and
\* profile_semaphore is p
Holdings(self, s, p) ==
    (IF self \in s THEN {"sgs"} ELSE {}) \cup (IF self \in p THEN {"profile"} ELSE {})

\* the semaphore is taken and not given back when the group is missing
SgsLookupLeak(cache, sgid, sem, self) ==
    LET held == Acquire(sem, self)
    IN  IF sgid \in DOMAIN cache
        THEN [found |-> TRUE, rules |-> cache[sgid].security_group_rules,
              sem |-> Release(held, self)]
        ELSE [found |-> FALSE, rules |-> <<>>, sem |-> held]

\* with self._sgs_semaphore: rules = self.sgs[sgid]['security_group_rules']
SgsLookup(cache, sgid, sem, self) ==
    LET held == Acquire(sem, self)
    IN  IF sgid \in DOMAIN cache
        THEN [found |-> TRUE, rules |-> cache[sgid].security_group_rules,
              sem |-> Release(held, self)]
        ELSE [found |-> FALSE, rules |-> <<>>, sem |-> Release(held, self)]

\* the direction is not looked at: every rule goes to both lists
TranslatedAnyDirection(rules, ingress) ==
    [i \in DOMAIN rules |-> NeutronRuleToEtcdRule(rules[i])]

\* the translations of the rules of one direction, in the rules' order
Translated(rules, ingress) ==
    LET sel == SelectSeq(rules, LAMBDA r : (r.direction = "ingress") = ingress)
    IN  [i \in DOMAIN sel |-> NeutronRuleToEtcdRule(sel[i])]

\* one budget serves all the groups of the profile
KeptRetries(b) == b.retries

\* the retry budget a constituent group starts with
FreshRetries(b) == Retries

\* the state of profile_rules(pid) on entry
NewBuild(pid) ==
    [profile_id |-> pid, idx |-> 1, retries |-> Retries, inbound |-> <<>>,
     outbound |-> <<>>, attempts |-> 0, sleeps |-> 0, waited |-> FALSE,
     status |-> "run"]

NoBuild ==
    [profile_id |-> <<>>, idx |-> 0, retries |-> 0, inbound |-> <<>>,
     outbound |-> <<>>, attempts |-> 0, sleeps |-> 0, waited |-> FALSE,
     status |-> "none"]

\* the budget is tested before it is decremented
MissingGroupLate(b) ==
    IF b.retries = 0
    THEN [b EXCEPT !.attempts = @ + 1, !.status = "raise"]
    ELSE [b EXCEPT !.retries = @ - 1, !.attempts = @ + 1, !.sleeps = @ + 1,
                   !.status = "sleep"]

\* what a failed lookup does: raise when the budget is spent, sleep otherwise
MissingGroup(b) ==
    IF b.retries - 1 = 0
    THEN [b EXCEPT !.retries = @ - 1, !.attempts = @ + 1, !.status = "raise"]
    ELSE [b EXCEPT !.retries = @ - 1, !.attempts = @ + 1, !.sleeps = @ + 1,
                   !.status = "sleep"]

\* profile_rules runs on from state b until it returns, raises, sleeps, or
\* blocks on the semaphore; idx is the tag being looked up, and waited
\* tells that a group was found after a lookup had missed it
RECURSIVE ProfileRules(_, _, _, _)
ProfileRules(b, cache, sem, self) ==
    LET tg == ProfileTags(b.profile_id)
    IN  IF b.idx > Len(tg)
        THEN [b |-> [b EXCEPT !.status = "return"], sem |-> sem]
        ELSE IF sem # {}
        THEN [b |-> [b EXCEPT !.status = "blocked"], sem |-> sem]
        ELSE LET look == SgsLookup(cache, tg[b.idx], sem, self)
             IN  IF look.found
                 THEN ProfileRules(
                          [b EXCEPT !.idx = @ + 1,
                                    !.retries = FreshRetries(b),
                                    !.attempts = 0,
                                    !.sleeps = 0,
                                    !.waited = @ \/ b.attempts > 0,
                                    !.inbound = @ \o Translated(look.rules, TRUE),
                                    !.outbound = @ \o Translated(look.rules, FALSE)],
                          cache, look.sem, self)
                 ELSE [b |-> MissingGroup(b), sem |-> look.sem]

\* the value profile_rules returns
RulesDoc(b) == [inbound_rules |-> b.inbound, outbound_rules |-> b.outbound]

----------------------------------------------------------------------------
(* The events the driver delivers.                                         *)

MaxEvents == 2      \* event handlers called in one run

\* every call of a handler runs in a green thread of its own
Tasks == 1..MaxEvents

GroupA == <<"a">>
GroupB == <<"b">>

TcpIn ==
    [direction |-> "ingress", ethertype |-> "IPv4", protocol |-> PyStr("tcp"),
     remote_group_id |-> None, remote_ip_prefix |-> PyStr("10.0.0.0/8"),
     port_range_min |-> PyInt(3), port_range_max |-> PyInt(4)]

AnyOut ==
    [direction |-> "egress", ethertype |-> "IPv4", protocol |-> None,
     remote_group_id |-> None, remote_ip_prefix |-> None,
     port_range_min |-> None, port_range_max |-> None]

IcmpIn ==
    [direction |-> "ingress", ethertype |-> "IPv6", protocol |-> PyStr("icmp"),
     remote_group_id |-> PyStr("sg-web"), remote_ip_prefix |-> None,
     port_range_min |-> PyInt(3), port_range_max |-> PyInt(4)]

\* the rule lists a security group arrives with
RuleLists == {<<TcpIn>>, <<AnyOut, IcmpIn>>}

SecurityGroups == [id : {GroupA, GroupB}, security_group_rules : RuleLists]

\* profile ids in use: "a", "a_b", and "ab", whose one tag is no group that
\* ever arrives
ProfileIds == {Join(<<GroupA>>), Join(<<GroupA, GroupB>>), GroupA \o GroupB}

Ports ==
    {[id |-> "port1", binding_host_id |-> "host1", device_id |-> "vm1",
      admin_state_up |-> TRUE, interface_name |-> "tap1",
      mac_address |-> "fa:16:3e:00:00:01",
      fixed_ips |-> <<[ip_address |-> "10.0.0.5", colon |-> FALSE,
                       gateway |-> PyStr("10.0.0.1")]>>,
      security_groups |-> <<GroupA>>],
     [id |-> "port2", binding_host_id |-> "host1", device_id |-> "vm2",
      admin_state_up |-> FALSE, interface_name |-> "tap2",
      mac_address |-> "fa:16:3e:00:00:02",
      fixed_ips |-> <<[ip_address |-> "fd00::5", colon |-> TRUE, gateway |-> None],
                      [ip_address |-> "10.0.0.6", colon |-> FALSE, gateway |-> None]>>,
      security_groups |-> <<GroupA, GroupB>>]}

NoSg == [none |-> TRUE]
NoPort == [none |-> TRUE]

----------------------------------------------------------------------------
(* The green threads of the event handlers.                                *)

IdleTask ==
    [op |-> "idle", pc |-> "idle", sg |-> NoSg, port |-> NoPort, profile |-> <<>>,
     profiles_to_rewrite |-> {}, b |-> NoBuild, result |-> "none",
     log |-> <<>>, alone |-> TRUE, held |-> {}]

Running(ts) == ts.pc \notin {"idle", "done"}

\* the handler returns
Returned(ts) == [ts EXCEPT !.pc = "done", !.result = "ok", !.b = NoBuild]

\* an exception leaves the handler
Raised(ts, exc) == [ts EXCEPT !.pc = "done", !.result = exc]

\* the KeyError is swallowed and the rules gathered so far are written
WritePartial(ts, r) ==
    [ts |-> CASE r.b.status \in {"return", "raise"} ->
                     [ts EXCEPT !.pc = "write_rules", !.b = r.b]
              [] r.b.status = "sleep" -> [ts EXCEPT !.pc = "sleep", !.b = r.b]
              [] r.b.status = "blocked" -> [ts EXCEPT !.pc = "blocked", !.b = r.b],
     sem |-> r.sem]

\* where profile_rules leaves the thread: about to write the rules it
\* returned, asleep, blocked, or out of the handler with the KeyError
AfterProfileRules(ts, r) ==
    [ts |-> CASE r.b.status = "return" -> [ts EXCEPT !.pc = "write_rules", !.b = r.b]
              [] r.b.status = "sleep" -> [ts EXCEPT !.pc = "sleep", !.b = r.b]
              [] r.b.status = "blocked" -> [ts EXCEPT !.pc = "blocked", !.b = r.b]
              [] r.b.status = "raise" -> Raised([ts EXCEPT !.b = r.b], "KeyError"),
     sem |-> r.sem]

\* write_profile_to_etcd(pid) up to its first suspension point: the
\* arguments of the first client.write are evaluated before it is called
WriteProfileToEtcd(ts, pid, cache, sem, self) ==
    AfterProfileRules(ts, ProfileRules(NewBuild(pid), cache, sem, self))

\* profile_rules resumes after its sleep
ResumeProfileRules(ts, cache, sem, self) ==
    AfterProfileRules(ts, ProfileRules([ts.b EXCEPT !.status = "run"], cache, sem, self))

\* every needed profile is rewritten
AllNeeded(sg, needed) == needed

\* the needed profiles that incorporate the group, found under the
\* profile semaphore
ProfilesToRewrite(sg, needed) ==
    {pid \in needed : sg.id \in Range(ProfileTags(pid))}

\* for profile_id in profiles_to_rewrite: the next turn of the loop, in
\* the set's iteration order, or the handler's return when none is left
RewriteNext(ts, cache, sem, self) ==
    IF ts.profiles_to_rewrite = {}
    THEN {[ts |-> Returned(ts), sem |-> sem]}
    ELSE {WriteProfileToEtcd([ts EXCEPT !.profiles_to_rewrite = @ \ {pid}],
                             pid, cache, sem, self) :
              pid \in ts.profiles_to_rewrite}

\* the driver calls a handler, in a new green thread
CanStart(t) ==
    /\ events < MaxEvents
    /\ t = events + 1

\* a handler starts in thread t: the others no longer run alone
Started(t, ts) ==
    [u \in Tasks |->
        IF u = t THEN [ts EXCEPT !.alone = \A w \in Tasks \ {t} : ~ Running(tasks[w])]
        ELSE IF tasks[u].pc = "idle" THEN tasks[u]
        ELSE [tasks[u] EXCEPT !.alone = FALSE]]

----------------------------------------------------------------------------
(* security_group_updated                                                  *)

\* self.sgs[sg['id']] = sg
SgsUpdate(cache, sg) == DictSet(cache, sg.id, sg)

\* the rest of the handler runs inside the with block
HoldSgsSemaphore(sem, self) == Acquire(sem, self)

\* with self._sgs_semaphore: the semaphore before and after the block
WithSgsSemaphore(sem, self) == Release(Acquire(sem, self), self)

\* the rewrites run inside the with block
HoldProfileSemaphore(sem, self) == Acquire(sem, self)

\* with self.profile_semaphore: the semaphore before and after the block
WithProfileSemaphore(sem, self) == Release(Acquire(sem, self), self)

\* ts after a step that went into profile_rules with the semaphores s and
\* p: what the thread held during its lookups, or holds while it waits
LocksTaken(ts, self, s, p) ==
    IF ts.result = "ok" THEN ts
    ELSE [ts EXCEPT !.held = @ \cup
             {Holdings(self, IF ts.pc = "blocked" THEN s ELSE Acquire(s, self), p)}]

\* the handler is called and runs to its first suspension point
SecurityGroupUpdated(t, sg) ==
    /\ CanStart(t)
    /\ events' = events + 1
    /\ LET ts0 == [IdleTask EXCEPT !.op = "security_group_updated", !.sg = sg]
       IN  IF sgs_semaphore # {}
           THEN /\ tasks' = Started(t, [ts0 EXCEPT !.pc = "blocked"])
                /\ UNCHANGED <<sgs, sgs_semaphore, profile_semaphore>>
           ELSE LET cache == SgsUpdate(sgs, sg)
                    sem == WithSgsSemaphore(sgs_semaphore, t)
                    h1 == Holdings(t, Acquire(sgs_semaphore, t), profile_semaphore)
                IN  /\ sgs' = cache
                    /\ IF profile_semaphore # {}
                       THEN /\ tasks' = Started(t, [ts0 EXCEPT !.pc = "blocked",
                                                               !.held = {h1}])
                            /\ sgs_semaphore' = sem
                            /\ UNCHANGED profile_semaphore
                       ELSE LET psem == WithProfileSemaphore(profile_semaphore, t)
                                h2 == Holdings(t, sem, Acquire(profile_semaphore, t))
                                ts1 == [ts0 EXCEPT !.profiles_to_rewrite =
                                           ProfilesToRewrite(sg, needed_profiles),
                                                   !.held = {h1, h2}]
                            IN  /\ profile_semaphore' = psem
                                /\ \E nx \in RewriteNext(ts1, cache, sem, t) :
                                       /\ tasks' = Started(t, LocksTaken(nx.ts, t, sem, psem))
                                       /\ sgs_semaphore' = nx.sem
    /\ UNCHANGED <<store, needed_profiles, resync, pure>>

----------------------------------------------------------------------------
(* endpoint_created, endpoint_updated, endpoint_deleted                    *)

\* write_port_to_etcd: the endpoint document goes to the port's key
WritePortToEtcd(ts, p) == [ts EXCEPT !.pc = "write_port"]

EndpointCreated(t, p, pid) ==
    /\ CanStart(t)
    /\ events' = events + 1
    /\ tasks' = Started(t, WritePortToEtcd(
                               [IdleTask EXCEPT !.op = "endpoint_created",
                                                !.port = p, !.profile = pid], p))
    /\ UNCHANGED <<store, sgs, needed_profiles, sgs_semaphore, profile_semaphore,
                   resync, pure>>

\* endpoint_updated does the same as endpoint_created
EndpointUpdated(t, p, pid) == EndpointCreated(t, p, pid)

\* the write of the endpoint document completes; the profile comes next
WritePortDone(t) ==
    /\ tasks[t].pc = "write_port"
    /\ LET ts == tasks[t]
           key == PortEtcdKey(ts.port)
           val == PortEtcdData(ts.port)
           logged == [ts EXCEPT !.log = Append(@, StoreOp("write", key, val))]
           nx == WriteProfileToEtcd(logged, ts.profile, sgs, sgs_semaphore, t)
       IN  /\ store' = DictSet(store, key, val)
           /\ tasks' = [tasks EXCEPT ![t] =
                            LocksTaken(nx.ts, t, sgs_semaphore, profile_semaphore)]
           /\ sgs_semaphore' = nx.sem
    /\ UNCHANGED <<sgs, needed_profiles, profile_semaphore, resync, pure, events>>

\* endpoint_deleted up to client.delete(key)
EndpointDeleted(t, p) ==
    /\ CanStart(t)
    /\ events' = events + 1
    /\ tasks' = Started(t, [IdleTask EXCEPT !.op = "endpoint_deleted",
                                            !.port = p, !.pc = "delete"])
    /\ UNCHANGED <<store, sgs, needed_profiles, sgs_semaphore, profile_semaphore,
                   resync, pure>>

\* EtcdKeyNotFound is not caught
DeleteUncaught(ts, st, key) ==
    LET logged == [ts EXCEPT !.log = Append(@, StoreOp("delete", key, NoValue))]
    IN  IF key \in DOMAIN st
        THEN [ts |-> Returned(logged), store |-> DictDel(st, key)]
        ELSE [ts |-> Raised(logged, "EtcdKeyNotFound"), store |-> st]

\* the profile documents of the port go with its endpoint
DeleteWithProfile(ts, st, key) ==
    LET logged == [ts EXCEPT !.log = Append(@, StoreOp("delete", key, NoValue))]
        pid == PortProfileId(ts.port)
    IN  [ts |-> Returned(logged),
         store |-> DictDel(DictDel(DictDel(st, key), KeyForProfileRules(pid)),
                           KeyForProfileTags(pid))]

\* client.delete(key) and the except clause around it: etcd raises
\* EtcdKeyNotFound for a key it does not hold
DeleteOutcome(ts, st, key) ==
    LET logged == [ts EXCEPT !.log = Append(@, StoreOp("delete", key, NoValue))]
    IN  IF key \in DOMAIN st
        THEN [ts |-> Returned(logged), store |-> DictDel(st, key)]
        ELSE [ts |-> Returned(logged), store |-> st]

\* the key endpoint_deleted deletes
DeletedKey(p) == PortEtcdKey(p)

DeleteDone(t) ==
    /\ tasks[t].pc = "delete"
    /\ LET out == DeleteOutcome(tasks[t], store, DeletedKey(tasks[t].port))
       IN  /\ store' = out.store
           /\ tasks' = [tasks EXCEPT ![t] = out.ts]
    /\ UNCHANGED <<sgs, needed_profiles, sgs_semaphore, profile_semaphore, resync,
                   pure, events>>

----------------------------------------------------------------------------
(* write_profile_to_etcd and profile_rules, resumed                        *)

\* eventlet.sleep(0.2) is over: the lookup is tried again
RetrySleepDone(t) ==
    /\ tasks[t].pc = "sleep"
    /\ LET nx == ResumeProfileRules([tasks[t] EXCEPT !.held = {}], sgs, sgs_semaphore, t)
       IN  /\ tasks' = [tasks EXCEPT ![t] =
                            LocksTaken(nx.ts, t, sgs_semaphore, profile_semaphore)]
           /\ sgs_semaphore' = nx.sem
    /\ UNCHANGED <<store, sgs, needed_profiles, profile_semaphore, resync, pure, events>>

\* the two writes of write_profile_to_etcd, in the order they are made
ProfileWrites(b) ==
    <<StoreOp("write", KeyForProfileRules(b.profile_id), RulesDoc(b)),
      StoreOp("write", KeyForProfileTags(b.profile_id), ProfileTags(b.profile_id))>>

\* the write of the rules completes; the write of the tags is called
WriteRulesDone(t) ==
    /\ tasks[t].pc = "write_rules"
    /\ LET w == ProfileWrites(tasks[t].b)[1]
       IN  /\ store' = DictSet(store, w.key, w.val)
           /\ tasks' = [tasks EXCEPT ![t].log = Append(@, w), ![t].pc = "write_tags",
                                     ![t].held = {}]
    /\ UNCHANGED <<sgs, needed_profiles, sgs_semaphore, profile_semaphore, resync,
                   pure, events>>

\* the write of the tags completes: write_profile_to_etcd returns, to the
\* loop of security_group_updated or to the end of endpoint_created
WriteTagsDone(t) ==
    /\ tasks[t].pc = "write_tags"
    /\ LET w == ProfileWrites(tasks[t].b)[2]
           logged == [tasks[t] EXCEPT !.log = Append(@, w)]
       IN  /\ store' = DictSet(store, w.key, w.val)
           /\ \E nx \in RewriteNext(logged, sgs, sgs_semaphore, t) :
                  /\ tasks' = [tasks EXCEPT ![t] =
                                   LocksTaken(nx.ts, t, sgs_semaphore, profile_semaphore)]
                  /\ sgs_semaphore' = nx.sem
    /\ UNCHANGED <<sgs, needed_profiles, profile_semaphore, resync, pure, events>>

\* a call of the etcd client fails (etcd unreachable): the exception
\* leaves the handler
ClientFails(t) ==
    /\ tasks[t].pc \in {"write_port", "write_rules", "write_tags", "delete"}
    /\ tasks' = [tasks EXCEPT ![t] = Raised([@ EXCEPT !.held = {}], "EtcdException")]
    /\ UNCHANGED <<store, sgs, needed_profiles, sgs_semaphore, profile_semaphore,
                   resync, pure, events>>

----------------------------------------------------------------------------
(* periodic_resync_thread and provide_felix_config                         *)

IfacePfxKey == KeyForConfig("InterfacePrefix")

SpawnedResync ==
    [pc |-> "spawned", prefix |-> None, ready |-> None, last |-> "none",
     prev |-> "none", log |-> <<>>]

\* the top of the loop body: provide_felix_config up to its first read
BeginCycle(r) ==
    [r EXCEPT !.pc = "read_prefix", !.prefix = None, !.ready = None,
              !.prev = r.last, !.log = <<>>]

\* provide_felix_config has returned; resync_endpoints and
\* resync_security_groups do nothing; the thread sleeps
EndCycle(r) == [r EXCEPT !.pc = "sleep", !.last = "ok"]

\* the exception leaves the loop, and the thread with it
CatchNothing(r, exc) == [r EXCEPT !.pc = "dead", !.last = exc]

\* except: LOG.exception(...), and on to the sleep
CatchAll(r, exc) == [r EXCEPT !.pc = "sleep", !.last = exc]

\* the prefix is written whatever was read
WriteAlways(r) == [r EXCEPT !.pc = "write_prefix"]

\* "Now write the values that need writing": the first write, if any
WriteNeeded(r) ==
    IF ~ PyEq(r.prefix, PyStr("tap")) THEN [r EXCEPT !.pc = "write_prefix"]
    ELSE IF ~ PyEq(r.ready, PyStr("true")) THEN [r EXCEPT !.pc = "write_ready"]
    ELSE EndCycle(r)

\* after the write of the prefix: the write of the readiness flag, if any
WriteReadyNeeded(r) ==
    IF ~ PyEq(r.ready, PyStr("true")) THEN [r EXCEPT !.pc = "write_ready"]
    ELSE EndCycle(r)

\* the thread is scheduled for the first time
ResyncSpawned ==
    /\ resync.pc = "spawned"
    /\ resync' = BeginCycle(resync)
    /\ UNCHANGED <<store, sgs, needed_profiles, sgs_semaphore, profile_semaphore,
                   tasks, pure, events>>

\* eventlet.sleep(PERIODIC_RESYNC_INTERVAL_SECS) is over
ResyncSleepDone ==
    /\ resync.pc = "sleep"
    /\ resync' = BeginCycle(resync)
    /\ UNCHANGED <<store, sgs, needed_profiles, sgs_semaphore, profile_semaphore,
                   tasks, pure, events>>

\* the try block around the two reads: a missing key ends both reads
ReadPrefixOutcome(r, st) ==
    IF IfacePfxKey \in DOMAIN st
    THEN [r EXCEPT !.prefix = PyStr(st[IfacePfxKey]), !.pc = "read_ready"]
    ELSE WriteNeeded(r)

ReadReadyOutcome(r, st) ==
    IF READY_KEY \in DOMAIN st
    THEN WriteNeeded([r EXCEPT !.ready = PyStr(st[READY_KEY])])
    ELSE WriteNeeded(r)

ReadPrefixDone ==
    /\ resync.pc = "read_prefix"
    /\ resync' = ReadPrefixOutcome(resync, store)
    /\ UNCHANGED <<store, sgs, needed_profiles, sgs_semaphore, profile_semaphore,
                   tasks, pure, events>>

ReadReadyDone ==
    /\ resync.pc = "read_ready"
    /\ resync' = ReadReadyOutcome(resync, store)
    /\ UNCHANGED <<store, sgs, needed_profiles, sgs_semaphore, profile_semaphore,
                   tasks, pure, events>>

\* a write of provide_felix_config, with the value the key held before it
ConfigWrite(st, key, val) ==
    [op |-> "write", key |-> key, val |-> val,
     before |-> IF key \in DOMAIN st THEN PyStr(st[key]) ELSE None]

WritePrefixDone ==
    /\ resync.pc = "write_prefix"
    /\ store' = DictSet(store, IfacePfxKey, "tap")
    /\ resync' = WriteReadyNeeded(
                     [resync EXCEPT !.log =
                         Append(@, ConfigWrite(store, IfacePfxKey, "tap"))])
    /\ UNCHANGED <<sgs, needed_profiles, sgs_semaphore, profile_semaphore,
                   tasks, pure, events>>

WriteReadyDone ==
    /\ resync.pc = "write_ready"
    /\ store' = DictSet(store, READY_KEY, "true")
    /\ resync' = EndCycle(
                     [resync EXCEPT !.log =
                         Append(@, ConfigWrite(store, READY_KEY, "true"))])
    /\ UNCHANGED <<sgs, needed_profiles, sgs_semaphore, profile_semaphore,
                   tasks, pure, events>>

\* a call of the etcd client fails in the resync thread (etcd unreachable)
ResyncClientFails ==
    /\ resync.pc \in {"read_prefix", "read_ready", "write_prefix", "write_ready"}
    /\ resync' = CatchAll(resync, "EtcdException")
    /\ UNCHANGED <<store, sgs, needed_profiles, sgs_semaphore, profile_semaphore,
                   tasks, pure, events>>

----------------------------------------------------------------------------
(* The pure functions, applied to their inputs.                            *)

TranslateRule ==
    /\ rule # NoDict
    /\ etcd_rule = NoDict
    /\ etcd_rule' = NeutronRuleToEtcdRule(rule)
    /\ UNCHANGED <<store, sgs, needed_profiles, sgs_semaphore, profile_semaphore,
                   tasks, resync, rule, port, profile_id, tags, events>>

CallPortProfileId ==
    /\ port # NoPort
    /\ PyEq(profile_id, None)
    /\ profile_id' = PyStr(PortProfileId(port))
    /\ UNCHANGED <<store, sgs, needed_profiles, sgs_semaphore, profile_semaphore,
                   tasks, resync, rule, etcd_rule, port, tags, events>>

CallProfileTags ==
    /\ ~ PyEq(profile_id, None)
    /\ PyEq(tags, None)
    /\ tags' = PyList(ProfileTags(profile_id.v))
    /\ UNCHANGED <<store, sgs, needed_profiles, sgs_semaphore, profile_semaphore,
                   tasks, resync, rule, etcd_rule, port, profile_id, events>>

----------------------------------------------------------------------------
(* Specifications.                                                         *)

EmptyDict == [k \in {} |-> NoValue]

\* the cache is empty and the two semaphores are free
InitCache ==
    /\ sgs = EmptyDict
    /\ sgs_semaphore = {}
    /\ profile_semaphore = {}

\* the transport's state after __init__, before any event
InitTransport ==
    /\ InitCache
    /\ tasks = [t \in Tasks |-> IdleTask]
    /\ resync = SpawnedResync
    /\ events = 0

NoPureInput ==
    /\ rule = NoDict
    /\ etcd_rule = NoDict
    /\ port = NoPort
    /\ profile_id = None
    /\ tags = None

\* what an earlier run of the plugin left in etcd: the endpoints of the
\* ports and the documents of profile "a"
EarlierRun ==
    LET pa == Join(<<GroupA>>)
        docs == ProfileWrites([NewBuild(pa) EXCEPT !.inbound = Translated(<<TcpIn>>, TRUE)])
    IN  [k \in {PortEtcdKey(p) : p \in Ports} \cup {docs[1].key, docs[2].key} |->
            IF k = docs[1].key THEN docs[1].val
            ELSE IF k = docs[2].key THEN docs[2].val
            ELSE PortEtcdData(CHOOSE p \in Ports : PortEtcdKey(p) = k)]

\* The event handlers.  The driver keeps needed_profiles; the transport
\* reads it only.  etcd is empty or holds what an earlier run left.
Init ==
    /\ InitTransport
    /\ NoPureInput
    /\ needed_profiles \in SUBSET ProfileIds
    /\ store \in {EmptyDict, EarlierRun}

Next ==
    \E t \in Tasks :
        \/ \E sg \in SecurityGroups : SecurityGroupUpdated(t, sg)
        \/ \E p \in Ports : EndpointCreated(t, p, PortProfileId(p))
        \/ \E p \in Ports : EndpointUpdated(t, p, PortProfileId(p))
        \/ \E p \in Ports : EndpointDeleted(t, p)
        \/ WritePortDone(t)
        \/ DeleteDone(t)
        \/ RetrySleepDone(t)
        \/ WriteRulesDone(t)
        \/ WriteTagsDone(t)
        \/ ClientFails(t)

Spec == Init /\ [][Next]_vars

\* The periodic resync thread.  It reads and writes the two configuration
\* keys only and takes no semaphore; the handlers touch neither key.
\* etcd holds anything or nothing under the two keys when the plugin starts.
ConfigStores ==
    {[k \in ks |-> IF k = IfacePfxKey THEN pv ELSE rv] :
        ks \in SUBSET {IfacePfxKey, READY_KEY},
        pv \in {"tap", "eth"}, rv \in {"true", "false"}}

InitResync ==
    /\ InitTransport
    /\ NoPureInput
    /\ needed_profiles = {}
    /\ store \in ConfigStores

PeriodicResyncThread ==
    \/ ResyncSpawned
    \/ ResyncSleepDone
    \/ ReadPrefixDone
    \/ ReadReadyDone
    \/ WritePrefixDone
    \/ WriteReadyDone
    \/ ResyncClientFails

SpecResync == InitResync /\ [][PeriodicResyncThread]_vars

\* eventlet wakes a sleeping thread when its time is up, and a call of the
\* etcd client returns or raises
FairResync == SpecResync /\ WF_vars(PeriodicResyncThread)

\* _neutron_rule_to_etcd_rule on every rule of RuleInputs
InitRule ==
    /\ InitTransport
    /\ needed_profiles = {}
    /\ store = EmptyDict
    /\ rule \in RuleInputs
    /\ etcd_rule = NoDict
    /\ port = NoPort
    /\ profile_id = None
    /\ tags = None

SpecRule == InitRule /\ [][TranslateRule]_vars

\* port_profile_id on the security groups of a port, and profile_tags on
\* its result or on any string
InitIds ==
    /\ InitTransport
    /\ needed_profiles = {}
    /\ store = EmptyDict
    /\ rule = NoDict
    /\ etcd_rule = NoDict
    /\ tags = None
    /\ \/ port \in [security_groups : GroupListInputs] /\ profile_id = None
       \/ port = NoPort /\ profile_id \in {PyStr(x) : x \in ProfileIdInputs}

SpecIds == InitIds /\ [][CallPortProfileId \/ CallProfileTags]_vars

\* Profile builds against a cache that does not change: endpoint_created
\* and endpoint_updated only.  Earlier security_group_updated events, with
\* no profile needed yet, have left any of the groups in the cache.
BuildRuleLists == RuleLists \cup {<<IcmpIn, AnyOut, TcpIn>>}

BuildCaches ==
    UNION {[gs -> BuildRuleLists] : gs \in SUBSET {GroupA, GroupB}}

InitBuild ==
    /\ sgs \in {[g \in DOMAIN c |-> [id |-> g, security_group_rules |-> c[g]]] :
                    c \in BuildCaches}
    /\ sgs_semaphore = {}
    /\ profile_semaphore = {}
    /\ tasks = [t \in Tasks |-> IdleTask]
    /\ resync = SpawnedResync
    /\ events = 0
    /\ NoPureInput
    /\ needed_profiles = {}
    /\ store = EmptyDict

NextBuild ==
    \E t \in Tasks :
        \/ \E p \in Ports : EndpointCreated(t, p, PortProfileId(p))
        \/ \E p \in Ports : EndpointUpdated(t, p, PortProfileId(p))
        \/ WritePortDone(t)
        \/ RetrySleepDone(t)
        \/ WriteRulesDone(t)
        \/ WriteTagsDone(t)
        \/ ClientFails(t)

SpecBuild == InitBuild /\ [][NextBuild]_vars

----------------------------------------------------------------------------
(* Claims about the event handlers.                                        *)

HasTag(pid, gid) == \E i \in DOMAIN ProfileTags(pid) : ProfileTags(pid)[i] = gid

\* the rules of one direction of the groups tg[i..], in tag order
RECURSIVE RulesOfGroups(_, _, _, _)
RulesOfGroups(tg, i, cache, ingress) ==
    IF i > Len(tg) THEN <<>>
    ELSE Translated(cache[tg[i]].security_group_rules, ingress)
             \o RulesOfGroups(tg, i + 1, cache, ingress)

\* the rules document of a profile whose groups are all in the cache
ExpectedRules(pid, cache) ==
    [inbound_rules |-> RulesOfGroups(ProfileTags(pid), 1, cache, TRUE),
     outbound_rules |-> RulesOfGroups(ProfileTags(pid), 1, cache, FALSE)]

LogKeys(ts) == {ts.log[i].key : i \in DOMAIN ts.log}

\* the writes the handler has made of key k
WritesOf(ts, k) == {i \in DOMAIN ts.log : ts.log[i].op = "write" /\ ts.log[i].key = k}

ProfileKeys(pid) == {KeyForProfileRules(pid), KeyForProfileTags(pid)}

\* C1: security_group_updated(g) rewrites exactly the needed profiles that
\* hold g's id as a whole tag.  It never writes a document of another
\* profile, nor one document twice; and when it has returned, no other
\* handler having run beside it, each such profile has been written once,
\* its rules built from the cache that holds g's new rule set.
C1_RewritesExactlyAffected ==
    \A t \in Tasks :
        LET ts == tasks[t]
            affected == {pid \in needed_profiles : HasTag(pid, ts.sg.id)}
        IN  ts.op = "security_group_updated" =>
                /\ LogKeys(ts) \subseteq UNION {ProfileKeys(pid) : pid \in affected}
                /\ \A k \in LogKeys(ts) : Cardinality(WritesOf(ts, k)) = 1
                /\ (ts.pc = "done" /\ ts.result = "ok" /\ ts.alone) =>
                       /\ sgs[ts.sg.id] = ts.sg
                       /\ \A pid \in affected :
                              /\ \E i \in WritesOf(ts, KeyForProfileRules(pid)) :
                                     ts.log[i].val = ExpectedRules(pid, sgs)
                              /\ \E i \in WritesOf(ts, KeyForProfileTags(pid)) :
                                     ts.log[i].val = ProfileTags(pid)

\* security_group_updated has rewritten two profiles and left a third,
\* needed one alone
C1_TwoRewritten ==
    \E t \in Tasks :
        /\ tasks[t].op = "security_group_updated"
        /\ tasks[t].pc = "done" /\ tasks[t].result = "ok" /\ tasks[t].alone
        /\ Len(tasks[t].log) = 4
        /\ \E pid \in needed_profiles : ~ HasTag(pid, tasks[t].sg.id)

\* C2: a group absent at every lookup is looked up exactly 20 times, with
\* a sleep after each attempt but the last, and then the KeyError is
\* raised: no 21st attempt is made and no rule list is returned.
C2_TwentyAttempts ==
    \A t \in Tasks :
        LET ts == tasks[t]
        IN  /\ ts.b.attempts <= 20
            /\ ts.pc = "sleep" => (ts.b.attempts < 20 /\ ts.b.sleeps = ts.b.attempts)
            /\ ts.b.attempts = 20 =>
                   /\ ts.b.sleeps = 19
                   /\ ts.pc = "done"
                   /\ ts.result = "KeyError"
            /\ ts.result = "KeyError" => ts.b.attempts = 20

C2_GaveUp ==
    \E t \in Tasks : tasks[t].result = "KeyError" /\ tasks[t].b.attempts = 20

\* C3: when profile_rules gives up on a missing group, the handler is left
\* with the KeyError and write_profile_to_etcd has written neither the
\* rules key nor the tags key of that profile.
C3_NoWriteOnFailure ==
    \A t \in Tasks :
        LET ts == tasks[t]
        IN  ts.b.status = "raise" =>
                /\ ts.pc = "done"
                /\ ts.result = "KeyError"
                /\ LogKeys(ts) \cap ProfileKeys(ts.b.profile_id) = {}

\* the build that failed had gathered the rules of a first group
C3_PartialNotWritten ==
    \E t \in Tasks :
        /\ tasks[t].b.status = "raise"
        /\ Len(tasks[t].b.inbound) + Len(tasks[t].b.outbound) > 0

\* thread t takes a step of endpoint_deleted
DeleteStep(t) ==
    /\ tasks'[t].op = "endpoint_deleted"
    /\ tasks'[t].pc # tasks[t].pc

\* etcd answers the delete of thread t
DeleteAnswered(t) ==
    /\ tasks[t].pc = "delete"
    /\ Len(tasks'[t].log) > Len(tasks[t].log)

\* C4: when etcd answers the delete of endpoint_deleted with key-not-found,
\* the handler returns normally and the store is unchanged.
C4_DeleteAbsentSucceeds ==
    [][\A t \in Tasks :
          (DeleteAnswered(t) /\ PortEtcdKey(tasks[t].port) \notin DOMAIN store) =>
              /\ tasks'[t].pc = "done"
              /\ tasks'[t].result = "ok"
              /\ store' = store]_vars

\* two calls of endpoint_deleted for one port have both returned normally,
\* the second at least having found the key absent
C4_DeletedTwice ==
    \E t, u \in Tasks :
        /\ t # u
        /\ tasks[t].op = "endpoint_deleted" /\ tasks[u].op = "endpoint_deleted"
        /\ tasks[t].port = tasks[u].port
        /\ tasks[t].pc = "done" /\ tasks[u].pc = "done"
        /\ tasks[t].result = "ok" /\ tasks[u].result = "ok"
        /\ PortEtcdKey(tasks[t].port) \notin DOMAIN store

\* C5: endpoint_deleted deletes the endpoint key of its port and nothing
\* else: every other key keeps its value, no key is added, the cache and
\* the needed profiles are as they were, and the one call of the etcd
\* client the handler has made is the delete of that key.
C5_DeletesOnlyEndpoint ==
    [][\A t \in Tasks :
          DeleteStep(t) =>
              /\ sgs' = sgs
              /\ needed_profiles' = needed_profiles
              /\ DOMAIN store' \subseteq DOMAIN store
              /\ \A k \in DOMAIN store :
                     k # PortEtcdKey(tasks'[t].port) =>
                         (k \in DOMAIN store' /\ store'[k] = store[k])
              /\ tasks'[t].result = "ok" =>
                     /\ PortEtcdKey(tasks'[t].port) \notin DOMAIN store'
                     /\ tasks'[t].log =
                            <<StoreOp("delete", PortEtcdKey(tasks'[t].port), NoValue)>>]_vars

\* endpoint_deleted has deleted the endpoint of its port; the endpoint of
\* another port and the documents of a profile are still there
C5_OthersKept ==
    \E t \in Tasks :
        /\ tasks[t].op = "endpoint_deleted"
        /\ tasks[t].result = "ok"
        /\ \E p \in Ports : PortEtcdKey(p) \in DOMAIN store
        /\ KeyForProfileRules(PortProfileId(tasks[t].port)) \in DOMAIN store
        /\ KeyForProfileTags(PortProfileId(tasks[t].port)) \in DOMAIN store

----------------------------------------------------------------------------
(* Claims about provide_felix_config and periodic_resync_thread.           *)

\* C6: provide_felix_config writes a configuration key only if the value
\* stored under it differs from the required one: no write finds its key
\* already holding the value it writes.
C6_WritesOnlyOnMismatch ==
    \A i \in DOMAIN resync.log :
        ~ PyEq(resync.log[i].before, PyStr(resync.log[i].val))

\* C7: provide_felix_config is idempotent.  When it has returned normally
\* InterfacePrefix is 'tap' and the readiness key is 'true'; and when the
\* run before it had returned normally too, it has made no write.
C7_ConfigIdempotent ==
    (resync.pc = "sleep" /\ resync.last = "ok") =>
        /\ IfacePfxKey \in DOMAIN store
        /\ store[IfacePfxKey] = "tap"
        /\ READY_KEY \in DOMAIN store
        /\ store[READY_KEY] = "true"
        /\ resync.prev = "ok" => resync.log = <<>>

\* a second run, after a run that returned normally, has returned
C7_SecondRunReturned ==
    resync.pc = "sleep" /\ resync.last = "ok" /\ resync.prev = "ok"

InCycle == resync.pc \in {"read_prefix", "read_ready", "write_prefix", "write_ready"}

\* C8: the resync loop never terminates and isolates its cycles.  No
\* exception leaves the loop; every cycle, whatever it raises, reaches the
\* sleep; after every sleep, also the sleep of a cycle that raised, another
\* cycle starts.
C8_LoopNeverTerminates ==
    /\ [](resync.pc \in {"spawned", "sleep"} \/ InCycle)
    /\ InCycle ~> (resync.pc = "sleep")
    /\ (resync.pc = "sleep") ~> (resync.pc = "read_prefix")
    /\ (resync.pc = "sleep" /\ resync.last = "EtcdException")
           ~> (resync.pc = "read_prefix" /\ resync.prev = "EtcdException")

\* a cycle runs after a cycle in which a step raised
C8_CycleAfterFailure ==
    InCycle /\ resync.prev = "EtcdException"

----------------------------------------------------------------------------
(* Claims about the pure functions.                                        *)

\* C9: profile id round trip.  profile_tags(port_profile_id(port)) is the
\* port's list of security group ids, and '_'.join(profile_tags(x)) is x
\* for every profile id x.
C9_ProfileIdRoundTrip ==
    PyEq(tags, None) \/
        /\ port # NoPort => tags.v = port.security_groups
        /\ Join(tags.v) = profile_id.v

\* C10: the translated rule carries exactly one of the tag and the net on
\* the side its direction names: src for ingress, dst for egress.
C10_OneSelector ==
    etcd_rule = NoDict \/
        LET keys == DOMAIN etcd_rule
        IN  IF rule.direction = "ingress"
            THEN ("src_tag" \in keys) # ("src_net" \in keys)
            ELSE ("dst_tag" \in keys) # ("dst_net" \in keys)

IsIcmp(r) == PyEq(r.protocol, PyStr("icmp"))

\* a type or code that is given: neither absent nor the -1 sentinel
Given(v) == ~ PyEq(v, None) /\ ~ PyEq(v, PyInt(-1))

\* the general part of C11: port_range_min/max of an ICMP rule become
\* icmp_type/icmp_code, each omitted when absent or -1, and no ports field
IcmpTypeAndCode(r, d) ==
    /\ ("icmp_type" \in DOMAIN d) = Given(r.port_range_min)
    /\ Given(r.port_range_min) => d["icmp_type"] = r.port_range_min
    /\ ("icmp_code" \in DOMAIN d) = Given(r.port_range_max)
    /\ Given(r.port_range_max) => d["icmp_code"] = r.port_range_max
    /\ "dst_ports" \notin DOMAIN d
    /\ "src_ports" \notin DOMAIN d

\* the rule of C11's scenario: ICMP, IPv6, ingress, type 3, code 4
IcmpScenario(r) ==
    /\ IsIcmp(r)
    /\ r.ethertype = "IPv6"
    /\ r.direction = "ingress"
    /\ PyEq(r.port_range_min, PyInt(3))
    /\ PyEq(r.port_range_max, PyInt(4))

IcmpScenarioFields ==
    [k \in {"ip_version", "protocol", "icmp_type", "icmp_code"} |->
        CASE k = "ip_version" -> PyInt(6)
          [] k = "protocol" -> PyStr("icmpv6")
          [] k = "icmp_type" -> PyInt(3)
          [] k = "icmp_code" -> PyInt(4)]

\* d without the fields ks
Without(d, ks) == [k \in (DOMAIN d) \ ks |-> d[k]]

\* C11 as stated: an ICMP IPv6 ingress rule with port_range_min 3 and
\* port_range_max 4 translates to exactly {ip_version: 6, protocol:
\* 'icmpv6', icmp_type: 3, icmp_code: 4}, no other field; and every ICMP
\* rule gets icmp_type/icmp_code from port_range_min/max, each omitted when
\* absent or -1, and no ports field.
C11_IcmpExactFields ==
    (etcd_rule = NoDict) \/ (~ IsIcmp(rule)) \/
        /\ IcmpScenario(rule) => etcd_rule = IcmpScenarioFields
        /\ IcmpTypeAndCode(rule, etcd_rule)

\* C11 amended: the four fields are the result's fields beside the remote
\* selector of the source side; with neither a remote group nor a prefix
\* the result is exactly the four fields and src_net '::/0'.  The general
\* part is as stated.
C11_IcmpFieldsBesideSelector ==
    (etcd_rule = NoDict) \/ (~ IsIcmp(rule)) \/
        /\ IcmpScenario(rule) =>
               /\ Without(etcd_rule, {"src_tag", "src_net"}) = IcmpScenarioFields
               /\ (PyEq(rule.remote_group_id, None) /\ PyEq(rule.remote_ip_prefix, None)) =>
                      etcd_rule = DictSet(IcmpScenarioFields, "src_net", PyStr("::/0"))
        /\ IcmpTypeAndCode(rule, etcd_rule)

\* the rule of the scenario, no remote group and no prefix, is translated
C11_IcmpV6Translated ==
    /\ etcd_rule # NoDict
    /\ IcmpScenario(rule)
    /\ PyEq(rule.remote_group_id, None) /\ PyEq(rule.remote_ip_prefix, None)

\* the any-address net of a family
AnyNet(ethertype) == IF ethertype = "IPv4" THEN PyStr("0.0.0.0/0") ELSE PyStr("::/0")

\* C12: a rule with neither a remote group id nor a remote ip prefix gets
\* the any-address net of its family, '0.0.0.0/0' or '::/0', and no tag; an
\* IPv4 ingress rule with protocol, remote group, prefix and both port
\* bounds null translates to exactly {ip_version: 4, src_net: '0.0.0.0/0'}.
C12_AnyAddressNet ==
    (etcd_rule = NoDict) \/
        LET netKey == IF rule.direction = "ingress" THEN "src_net" ELSE "dst_net"
            tagKey == IF rule.direction = "ingress" THEN "src_tag" ELSE "dst_tag"
            allNull == /\ rule.ethertype = "IPv4" /\ rule.direction = "ingress"
                       /\ PyEq(rule.protocol, None)
                       /\ PyEq(rule.remote_group_id, None)
                       /\ PyEq(rule.remote_ip_prefix, None)
                       /\ PyEq(rule.port_range_min, None)
                       /\ PyEq(rule.port_range_max, None)
        IN  /\ (PyEq(rule.remote_group_id, None) /\ PyEq(rule.remote_ip_prefix, None)) =>
                   /\ netKey \in DOMAIN etcd_rule
                   /\ etcd_rule[netKey] = AnyNet(rule.ethertype)
                   /\ tagKey \notin DOMAIN etcd_rule
            /\ allNull =>
                   etcd_rule = [k \in {"ip_version", "src_net"} |->
                                   IF k = "ip_version" THEN PyInt(4)
                                   ELSE PyStr("0.0.0.0/0")]

\* an IPv6 rule with neither a remote group nor a prefix is translated
C12_AnyV6Translated ==
    /\ etcd_rule # NoDict
    /\ rule.ethertype = "IPv6"
    /\ PyEq(rule.remote_group_id, None) /\ PyEq(rule.remote_ip_prefix, None)
    /\ \E k \in {"src_net", "dst_net"} :
           k \in DOMAIN etcd_rule /\ etcd_rule[k] = PyStr("::/0")

\* C13: the ports of a rule that is not ICMP.  Lower bound -1: ['1:65535'];
\* else lower equal to upper and present: [lower]; else both absent: no
\* ports field; any other bounds: the one range string ['lo:hi'].
C13_PortsResolved ==
    (etcd_rule = NoDict) \/ IsIcmp(rule) \/
        LET lo == rule.port_range_min
            hi == rule.port_range_max
            has == "dst_ports" \in DOMAIN etcd_rule
        IN  IF PyEq(lo, PyInt(-1))
            THEN has /\ etcd_rule["dst_ports"] = PyList(<<PyStr("1:65535")>>)
            ELSE IF PyEq(lo, hi) /\ ~ PyEq(lo, None)
            THEN has /\ etcd_rule["dst_ports"] = PyList(<<lo>>)
            ELSE IF PyEq(lo, None) /\ PyEq(hi, None)
            THEN ~ has
            ELSE has /\ etcd_rule["dst_ports"] =
                            PyList(<<PyStr(PyFormat(lo) \o ":" \o PyFormat(hi))>>)

\* a rule with equal bounds got the one port, and it is no ICMP rule
C13_SinglePort ==
    /\ etcd_rule # NoDict
    /\ ~ IsIcmp(rule)
    /\ PyEq(rule.port_range_min, PyInt(4)) /\ PyEq(rule.port_range_max, PyInt(4))
    /\ etcd_rule["dst_ports"] = PyList(<<PyInt(4)>>)

\* C14: the remote selector is on the source side (src_tag, src_net) of an
\* ingress rule and on the destination side (dst_tag, dst_net) of any
\* other rule, never on the opposite side; the ports, when there are any,
\* are dst_ports for both directions; src_ports is never emitted.
C14_DirectionPlacement ==
    (etcd_rule = NoDict) \/
        LET keys == DOMAIN etcd_rule
            selector == keys \cap {"src_tag", "src_net", "dst_tag", "dst_net"}
            ports == keys \cap {"src_ports", "dst_ports"}
        IN  /\ selector # {}
            /\ IF rule.direction = "ingress"
               THEN selector \subseteq {"src_tag", "src_net"}
               ELSE selector \subseteq {"dst_tag", "dst_net"}
            /\ ports \subseteq {"dst_ports"}
            /\ (~ IsIcmp(rule) /\ Given(rule.port_range_max)) => ports = {"dst_ports"}

\* an ingress rule was translated to a source selector and destination ports
C14_IngressWithPorts ==
    /\ etcd_rule # NoDict
    /\ rule.direction = "ingress"
    /\ "src_tag" \in DOMAIN etcd_rule
    /\ "dst_ports" \in DOMAIN etcd_rule

----------------------------------------------------------------------------
(* Claims about profile_rules.                                             *)

\* the translations of the rules of one direction among rules[i..], in
\* the list's order
RECURSIVE TranslationsFrom(_, _, _)
TranslationsFrom(rules, i, ingress) ==
    IF i > Len(rules) THEN <<>>
    ELSE (IF (rules[i].direction = "ingress") = ingress
          THEN <<NeutronRuleToEtcdRule(rules[i])>> ELSE <<>>)
             \o TranslationsFrom(rules, i + 1, ingress)

\* the same for the groups tg[j..], in tag order
RECURSIVE TranslationsOfGroups(_, _, _, _)
TranslationsOfGroups(tg, j, cache, ingress) ==
    IF j > Len(tg) THEN <<>>
    ELSE TranslationsFrom(cache[tg[j]].security_group_rules, 1, ingress)
             \o TranslationsOfGroups(tg, j + 1, cache, ingress)

\* the rules documents thread t has built and written for profile pid
RulesWritten(t, pid) ==
    {tasks[t].log[i].val : i \in WritesOf(tasks[t], KeyForProfileRules(pid))}

\* C15: with the cache unchanged, profile_rules(pid) returns as
\* inbound_rules the translations of exactly the ingress rules and as
\* outbound_rules those of exactly the other rules of pid's groups, by
\* group in tag order and then by position in the group; two builds of one
\* profile return the same lists.
C15_BuildOrdered ==
    \A t \in Tasks :
        LET b == tasks[t].b
            tg == ProfileTags(b.profile_id)
        IN  /\ b.status = "return" =>
                   /\ b.inbound = TranslationsOfGroups(tg, 1, sgs, TRUE)
                   /\ b.outbound = TranslationsOfGroups(tg, 1, sgs, FALSE)
            /\ \A u \in Tasks : \A pid \in {PortProfileId(p) : p \in Ports} :
                   Cardinality(RulesWritten(t, pid) \cup RulesWritten(u, pid)) <= 1

\* two builds of a two-group profile have returned, with two inbound rules
\* of one group among theirs
C15_BuiltTwice ==
    \E pid \in {PortProfileId(p) : p \in Ports} :
        /\ Len(ProfileTags(pid)) = 2
        /\ \A t \in Tasks :
               \E doc \in RulesWritten(t, pid) : Len(doc.inbound_rules) >= 3

----------------------------------------------------------------------------
(* Claims about the two semaphores.                                        *)

\* the calls a thread can be suspended in
SuspensionPoints == {"write_port", "write_rules", "write_tags", "delete", "sleep"}

\* C16: no thread holds the semaphore of the cache and the semaphore of the
\* needed profiles at one time; a thread that has left its handler, by a
\* return or by an exception (the KeyError of a missing group too), holds
\* neither; and no thread waits for a semaphore, so the threads never
\* deadlock on the two.
C16_NeverBothLocks ==
    /\ Cardinality(sgs_semaphore) <= 1
    /\ Cardinality(profile_semaphore) <= 1
    /\ \A t \in Tasks :
           /\ {"sgs", "profile"} \notin tasks[t].held
           /\ Holdings(t, sgs_semaphore, profile_semaphore) # {"sgs", "profile"}
           /\ tasks[t].pc = "done" =>
                  Holdings(t, sgs_semaphore, profile_semaphore) = {}
           /\ tasks[t].pc # "blocked"

\* security_group_updated has taken both semaphores, one after the other,
\* and a build has ended with the KeyError
C16_BothTakenInTurn ==
    \E t, u \in Tasks :
        /\ tasks[t].op = "security_group_updated"
        /\ {{"sgs"}, {"profile"}} \subseteq tasks[t].held
        /\ tasks[u].pc = "done" /\ tasks[u].result = "KeyError"
        /\ {"sgs"} \in tasks[u].held

\* C17: a thread suspended in a call of the etcd client or in the sleep of
\* the retry holds neither semaphore, and the thread of the periodic loop
\* never holds one; security_group_updated has given back the semaphore of
\* the needed profiles before its first rewrite starts.
C17_NoLockWhileSuspended ==
    /\ (sgs_semaphore \cup profile_semaphore) \subseteq Tasks
    /\ \A t \in Tasks :
           /\ tasks[t].pc \in SuspensionPoints =>
                  Holdings(t, sgs_semaphore, profile_semaphore) = {}
           /\ (tasks[t].op = "security_group_updated" /\ tasks[t].b # NoBuild) =>
                  t \notin profile_semaphore

\* security_group_updated sleeps in a retry, with profiles still to
\* rewrite, while another thread is suspended in a write
C17_SuspendedInRewrite ==
    \E t, u \in Tasks :
        /\ tasks[t].op = "security_group_updated"
        /\ tasks[t].pc = "sleep"
        /\ {"profile"} \in tasks[t].held \/ tasks[t].b.sleeps > 1
        /\ tasks[u].pc \in {"write_port", "write_rules", "write_tags"}

----------------------------------------------------------------------------
(* Claims about the retry of profile_rules.                                *)

IsPrefix(p, q) == Len(p) <= Len(q) /\ SubSeq(q, 1, Len(p)) = p

\* thread t wakes from the sleep of its retry and looks up again
RetryStep(t) ==
    /\ tasks[t].pc = "sleep"
    /\ tasks'[t].b # tasks[t].b \/ tasks'[t].pc # "sleep"

\* C18: when a build sleeps because a group was missing and the group is
\* in the cache when it looks again (a security_group_updated has put it
\* there), the lookup succeeds and the translations of the group's rules
\* follow the rules gathered so far; if it was the last group the build
\* returns and its rules are written.  The budget is per group: the next
\* group, when it is missing, is at its first attempt of 20.
C18_RetryToleratesRace ==
    [][\A t \in Tasks :
          LET b == tasks[t].b
              after == tasks'[t].b
              tg == ProfileTags(b.profile_id)
          IN  (RetryStep(t) /\ tg[b.idx] \in DOMAIN sgs) =>
                  LET rules == sgs[tg[b.idx]].security_group_rules
                  IN  /\ after.idx > b.idx
                      /\ after.waited
                      /\ IsPrefix(b.inbound \o TranslationsFrom(rules, 1, TRUE),
                                  after.inbound)
                      /\ IsPrefix(b.outbound \o TranslationsFrom(rules, 1, FALSE),
                                  after.outbound)
                      /\ tasks'[t].result # "KeyError"
                      /\ b.idx = Len(tg) =>
                             /\ tasks'[t].pc = "write_rules"
                             /\ after.status = "return"
                      /\ after.status = "sleep" =>
                             /\ after.attempts = 1
                             /\ after.retries = Retries - 1]_vars

\* a build that had missed a group has found it and writes the rules of
\* the profile, the group's among them
C18_FoundAfterWaiting ==
    \E t \in Tasks :
        /\ tasks[t].pc = "write_rules"
        /\ tasks[t].b.waited
        /\ Len(tasks[t].b.inbound) + Len(tasks[t].b.outbound) > 0

----------------------------------------------------------------------------
(* Claims about concurrent handlers.                                       *)

\* every handler that was called has returned normally
AllReturned ==
    \A t \in Tasks : tasks[t].pc = "idle" \/ (tasks[t].pc = "done" /\ tasks[t].result = "ok")

\* the rules document of pid built from the cache
BuiltFrom(pid, cache) ==
    [inbound_rules |-> TranslationsOfGroups(ProfileTags(pid), 1, cache, TRUE),
     outbound_rules |-> TranslationsOfGroups(ProfileTags(pid), 1, cache, FALSE)]

\* C19: convergence.  When the handlers that ran side by side have all
\* returned, the stored rules document of every needed profile that holds
\* the group of a security_group_updated among them is the profile built
\* from the cache as it is then.
C19_ConvergesToFinalCache ==
    AllReturned =>
        \A t \in Tasks : \A pid \in needed_profiles :
            (tasks[t].op = "security_group_updated" /\ HasTag(pid, tasks[t].sg.id)) =>
                /\ KeyForProfileRules(pid) \in DOMAIN store
                /\ store[KeyForProfileRules(pid)] = BuiltFrom(pid, sgs)

\* the groups of pid are all in the cache
AllCached(pid, cache) == Range(ProfileTags(pid)) \subseteq DOMAIN cache

\* C20: failure isolation in the fan-out.  When security_group_updated(g)
\* has ended with the KeyError of a build that gave up on another group,
\* the cache holds the new g, and every needed profile that holds g and
\* has all its groups in the cache has been rewritten all the same.
C20_FanOutIsolated ==
    \A t \in Tasks :
        LET ts == tasks[t]
        IN  (ts.op = "security_group_updated" /\ ts.pc = "done"
                 /\ ts.result = "KeyError" /\ ts.alone) =>
                /\ sgs[ts.sg.id] = ts.sg
                /\ \A pid \in needed_profiles :
                       (HasTag(pid, ts.sg.id) /\ AllCached(pid, sgs)) =>
                           /\ WritesOf(ts, KeyForProfileRules(pid)) # {}
                           /\ WritesOf(ts, KeyForProfileTags(pid)) # {}

====
